---- MODULE Spec2Model ----
(***************************************************************************)
(* Model of the trading journal application (src/index.tsx): the App       *)
(* component's state (trades, loading, analysisResult), the local store,   *)
(* the mount effects, the trade form, the file import and the AI analysis  *)
(* with their asynchronous completions.                                    *)
(***************************************************************************)
EXTENDS Bags, FiniteSets, Integers, Sequences, TLC

VARIABLES
    phase,           \* position of the mount sequence: "load", "save", "commit", "ready"
    queued,          \* the setTrades update queued by the load effect
    trades,          \* useState<Trade[]>
    loading,         \* useState(false)
    analysisResult,  \* useState<AnalysisResult | null>
    analysedCsv,     \* the tradesAsText the displayed analysisResult was computed from
    store,           \* localStorage item 'tradingJournalTrades'
    storeFull,       \* localStorage.setItem throws in this session (storage full or disabled)
    alertMsg,        \* the message the last handler gave to alert(), if any
    reads,           \* number of FileReader reads in flight
    imports,         \* runAiImport calls awaiting generateContent of the import
    analyses         \* runAiAnalysis calls awaiting generateContent of the analysis

vars == <<phase, queued, trades, loading, analysisResult, analysedCsv, store,
          storeFull, alertMsg, reads, imports, analyses>>

\* ---------------------------------------------------------------- bounds
MaxAdded == 2       \* trades added to the collection in one session
MaxInFlight == 2    \* file reads and inference calls in flight at once
MaxJournal == 4     \* trades of the longest journal whose metrics are computed

\* ------------------------------------------------------- program constants
MinTrades == 3
SampleLimit == 100

\* --------------------------------------------------------------- JS values
Num(n) == [t |-> "number", v |-> n]
NaN == [t |-> "NaN", v |-> 0]
JsonNull == [t |-> "null", v |-> 0]
Null == [type |-> "null"]

IsFinite(x) == x.t = "number"

Positions == {"long", "short"}
Statuses == {"win", "loss", "breakeven"}
Sessions == {"asia", "london", "new york"}
Biases == {"bullish", "bearish", "ranging"}
NewsImpacts == {"high", "medium", "low", "none"}
Grades == {"A", "B", "C", "D", "F"}

\* ------------------------------------------------------------- parseFloat
DigitVal(c) == CASE c = "0" -> 0 [] c = "1" -> 1 [] c = "2" -> 2 [] c = "3" -> 3
                 [] c = "4" -> 4 [] c = "5" -> 5 [] c = "6" -> 6 [] c = "7" -> 7
                 [] c = "8" -> 8 [] c = "9" -> 9 [] OTHER -> -1

RECURSIVE ParseDigits(_, _, _)
ParseDigits(s, i, acc) ==
    IF i > Len(s) \/ DigitVal(s[i]) < 0
    THEN [n |-> acc, next |-> i]
    ELSE ParseDigits(s, i + 1, acc * 10 + DigitVal(s[i]))

\* the text of a number input is a sequence of characters; integers only
ParseFloat(s) ==
    LET signed == Len(s) > 0 /\ s[1] \in {"-", "+"}
        start == IF signed THEN 2 ELSE 1
        r == ParseDigits(s, start, 0)
    IN  IF r.next = start THEN NaN
        ELSE Num(IF signed /\ s[1] = "-" THEN 0 - r.n ELSE r.n)

\* x || 0 on a number
OrZero(x) == IF x.t # "number" \/ x.v = 0 THEN Num(0) ELSE x

\* ------------------------------------------------------------ JSON texts
\* a text is either not JSON at all or the JSON of a value
GarbageText == [kind |-> "garbage", value |-> Null]
JsonText(v) == [kind |-> "json", value |-> v]
JsonArray(items) == [type |-> "array", items |-> items]
IsArray(v) == v.type = "array"

\* --------------------------------------------------------- JSON of trades
\* JSON.stringify writes NaN as null; every other modelled value is kept
StringifyValue(x) == IF x = NaN THEN JsonNull ELSE x

StringifyTrade(t) ==
    [f \in DOMAIN t |->
        IF f \in {"lotSize", "pnl", "commission"} THEN StringifyValue(t[f]) ELSE t[f]]

Stringify(ts) == JsonText(JsonArray([i \in 1..Len(ts) |-> StringifyTrade(ts[i])]))

\* JSON.parse: throws unless the text is JSON
JsonParse(text) ==
    IF text.kind = "json" THEN [threw |-> FALSE, value |-> text.value]
    ELSE [threw |-> TRUE, value |-> Null]

\* ---------------------------------------------------------------- ids
FormId(ms) == [prefix |-> "", ms |-> ms, index |-> -1]
ImportId(ms, index) == [prefix |-> "ai-import-", ms |-> ms, index |-> index]

WithId(trade, id) ==
    [f \in DOMAIN trade \cup {"id"} |-> IF f = "id" THEN id ELSE trade[f]]

\* ------------------------------------------------------------ alert texts
AlertNone == "none"
AlertMinTrades == "Please add at least 3 trades to run AI analysis."
AlertEmptyFile == "The Excel file is empty or could not be read."
AlertImported == "Successfully imported trades!"
AlertNoTrades == "AI could not find any valid trades in the file."
AlertImportError == "An error occurred during AI import."
AlertAnalysisError == "An error occurred during AI analysis."
AlertReadError == "Error: Failed to read the file."
AlertWorkbookError == "Error processing Excel file"
AlertFormIncomplete == "Please fill at least Pair and PnL (Rp)."

\* ------------------------------------------------------------- the form
InitialFormState ==
    [date |-> "2026-11-02", pair |-> "", lotSize |-> <<>>, position |-> "long",
     status |-> "win", pnl |-> <<>>, commission |-> <<>>, session |-> "london",
     bias |-> "ranging", confirmSmt |-> FALSE, newsImpact |-> "low",
     emotion |-> "", grade |-> "C", notes |-> ""]

FormWin ==
    [InitialFormState EXCEPT !.pair = "EURUSD", !.lotSize = <<"1">>,
        !.pnl = <<"1", "5", "0">>, !.commission = <<"1", "5">>, !.grade = "A"]

FormLoss ==
    [InitialFormState EXCEPT !.pair = "XAUUSD", !.pnl = <<"-", "5", "0">>,
        !.status = "loss", !.session = "asia", !.grade = "B"]

FormEven ==
    [InitialFormState EXCEPT !.pair = "USDJPY", !.pnl = <<"0">>,
        !.commission = <<"2">>, !.status = "breakeven", !.session = "new york"]

\* what the user may have typed when the form is submitted
FormInputs == {InitialFormState, FormWin}

\* the Omit<Trade, 'id'> that handleSubmit hands to addTrade
FormTrade(form) ==
    [form EXCEPT !.lotSize = OrZero(ParseFloat(form.lotSize)),
                 !.pnl = ParseFloat(form.pnl),
                 !.commission = OrZero(ParseFloat(form.commission))]

\* ------------------------------------------------- the previous session
StoredTrades ==
    << WithId(FormTrade(FormWin), FormId(-3)),
       WithId(FormTrade(FormLoss), FormId(-2)),
       WithId(FormTrade(FormWin), FormId(-1)) >>

AbsentItem == [kind |-> "absent", value |-> Null]

\* ------------------------------------------------------------ the files
RowWithPnl == [Pair |-> "EURUSD", Profit |-> "Rp 150"]
RowNoPnl == [Pair |-> "GBPUSD"]

NoFile == [kind |-> "none", rows |-> <<>>]
UnreadableFile == [kind |-> "unreadable", rows |-> <<>>]
CorruptFile == [kind |-> "corrupt", rows |-> <<>>]
Workbook(rows) == [kind |-> "workbook", rows |-> rows]

Min(a, b) == IF a < b THEN a ELSE b

\* a sheet of one row more than the import looks at
LongSheet == [i \in 1..(SampleLimit + 1) |-> IF i = 1 THEN RowNoPnl ELSE RowWithPnl]

Files == {NoFile, UnreadableFile, CorruptFile, Workbook(<<>>),
          Workbook(<<RowWithPnl, RowNoPnl>>)}

\* the same files, a sheet of one row and a sheet longer than the sample
Sheets == Files \cup {Workbook(<<RowWithPnl>>), Workbook(LongSheet)}

\* excelJson.slice(0, 100)
DataSample(excelJson) == SubSeq(excelJson, 1, Min(Len(excelJson), SampleLimit))

\* ------------------------------------------- what the import model returns
AiGood ==
    [date |-> "2026-10-30", pair |-> "EURUSD", lotSize |-> Num(1),
     position |-> "long", status |-> "win", pnl |-> Num(150),
     commission |-> Num(0), session |-> "london", bias |-> "bullish",
     confirmSmt |-> TRUE, newsImpact |-> "none", emotion |-> "calm",
     grade |-> "A", notes |-> ""]

\* the response schema declares no required property and no enum
AiBad == [date |-> "2026-10-31", pair |-> "GBPUSD", position |-> "buy"]

ImportArrays == {<<>>, <<AiGood>>, <<AiGood, AiBad>>}

Thrown == [kind |-> "throw", text |-> GarbageText]
Response(text) == [kind |-> "response", text |-> text]

ImportResponses ==
    {Thrown, Response(GarbageText), Response(JsonText([type |-> "object"]))}
        \cup {Response(JsonText(JsonArray(a))) : a \in ImportArrays}

\* ----------------------------------------------------- the analysis prompt
CsvColumns == {"date", "pair", "lotSize", "position", "status", "pnl",
               "commission", "session", "bias", "confirmSmt", "newsImpact",
               "emotion", "grade"}

\* t.emotion.replace(...) throws a TypeError when emotion is undefined
PromptThrows(ts) == \E i \in 1..Len(ts) : "emotion" \notin DOMAIN ts[i]

\* one CSV line per trade, in collection order; id and notes are not written
CsvRow(t) == [f \in CsvColumns \cap DOMAIN t |-> t[f]]
TradesAsText(ts) == [i \in 1..Len(ts) |-> CsvRow(ts[i])]

\* ------------------------------------ the metrics the prompt asks for
NumField(r, f) == IF f \in DOMAIN r /\ r[f].t = "number" THEN r[f].v ELSE 0
\* a net result that leaves the commission out
NetPnlGross(r) == NumField(r, "pnl")

NetPnl(r) == NumField(r, "pnl") - NumField(r, "commission")
Profit(r) == IF NumField(r, "pnl") > 0 THEN NumField(r, "pnl") ELSE 0
Loss(r) == IF NumField(r, "pnl") < 0 THEN 0 - NumField(r, "pnl") ELSE 0
Commission(r) == NumField(r, "commission")

RECURSIVE SumFirst(_, _)
SumFirst(xs, n) == IF n = 0 THEN 0 ELSE SumFirst(xs, n - 1) + xs[n]

\* the sum of F over the first n lines
SumTo(csv, n, F(_)) == SumFirst([i \in 1..Len(csv) |-> F(csv[i])], n)

Sum(csv, F(_)) == SumTo(csv, Len(csv), F)

Count(csv, f, v) == Cardinality({i \in 1..Len(csv) : f \in DOMAIN csv[i] /\ csv[i][f] = v})

NetWhere(csv, f, v) ==
    LET G(r) == IF f \in DOMAIN r /\ r[f] = v THEN NetPnl(r) ELSE 0
    IN  Sum(csv, G)

FormatRp(amount) == <<"Rp ", amount>>
\* [rate]% in hundredths of a percent
FormatRate(wins, total) == <<IF total = 0 THEN 0 ELSE (wins * 10000) \div total, "%">>

SessionOrder == <<"asia", "london", "new york">>
GradeOrder == <<"A", "B", "C", "D", "F">>

GradesFound(csv) ==
    SelectSeq(GradeOrder, LAMBDA g : Count(csv, "grade", g) > 0)

BestSessions(csv) ==
    {s \in Sessions : \A s2 \in Sessions : NetWhere(csv, "session", s) >= NetWhere(csv, "session", s2)}

BestGrades(csv) ==
    LET found == {g \in Grades : Count(csv, "grade", g) > 0}
    IN  {g \in found : \A g2 \in found : NetWhere(csv, "grade", g) >= NetWhere(csv, "grade", g2)}

Metrics(csv, session, grade) ==
    [totalNetPnl |-> FormatRp(Sum(csv, NetPnl)),
     totalProfit |-> FormatRp(Sum(csv, Profit)),
     totalLoss |-> FormatRp(Sum(csv, Loss)),
     winRate |-> FormatRate(Count(csv, "status", "win"), Len(csv)),
     totalTrades |-> Len(csv),
     totalCommissions |-> FormatRp(Sum(csv, Commission)),
     mostProfitableSession |-> session,
     bestPerformingGrade |-> grade]

CumulativePnlData(csv) ==
    [labels |-> [i \in 1..Len(csv) |-> csv[i].date],
     data |-> [i \in 1..Len(csv) |-> SumTo(csv, i, NetPnl)]]

OutcomeDistributionData(csv) ==
    [labels |-> <<"Wins", "Losses", "Breakeven">>,
     data |-> <<Count(csv, "status", "win"), Count(csv, "status", "loss"),
                Count(csv, "status", "breakeven")>>]

SessionPnlData(csv) ==
    [labels |-> SessionOrder,
     data |-> [i \in 1..3 |-> NetWhere(csv, "session", SessionOrder[i])]]

GradePnlData(csv) ==
    [labels |-> GradesFound(csv),
     data |-> [i \in 1..Len(GradesFound(csv)) |-> NetWhere(csv, "grade", GradesFound(csv)[i])]]

\* the object the analysis prompt and its response schema describe
AnalysisObject(csv, session, grade) ==
    [type |-> "object",
     metrics |-> Metrics(csv, session, grade),
     cumulativePnlData |-> CumulativePnlData(csv),
     outcomeDistributionData |-> OutcomeDistributionData(csv),
     sessionPnlData |-> SessionPnlData(csv),
     gradePnlData |-> GradePnlData(csv)]

\* the response schema declares no required property
WithoutMetrics(obj) == [f \in DOMAIN obj \ {"metrics"} |-> obj[f]]

AnalysisResponses(csv) ==
    LET full == {AnalysisObject(csv, s, g) : s \in BestSessions(csv), g \in BestGrades(csv)}
    IN  {Thrown, Response(GarbageText)}
            \cup {Response(JsonText(o)) : o \in full}
            \cup {Response(JsonText(WithoutMetrics(o))) : o \in full}

\* ------------------------------------------------------------ the state
InitialStores == {AbsentItem, GarbageText, Stringify(StoredTrades)}

\* what getItem may return at the mount: also JSON that is no array
StoredItems == InitialStores \cup {JsonText([type |-> "object"])}

NotQueued == [set |-> FALSE, value |-> JsonArray(<<>>)]

Init ==
    /\ phase = "load"
    /\ queued = NotQueued
    /\ trades = <<>>
    /\ loading = FALSE
    /\ analysisResult = Null
    /\ analysedCsv = <<>>
    /\ store \in InitialStores
    /\ storeFull = FALSE      \* a session whose storage takes the writes
    /\ alertMsg = AlertNone
    /\ reads = 0
    /\ imports = EmptyBag
    /\ analyses = EmptyBag

InFlight == reads + BagCardinality(imports) + BagCardinality(analyses)

One(x) == SetToBag({x})

\* a save effect that writes the collection of the render before
SaveEffectStale(ts) == store' = IF storeFull THEN store ELSE Stringify(trades)

\* the save effect on a render with the collection ts; a throw of setItem is caught
SaveEffect(ts) == store' = IF storeFull THEN store ELSE Stringify(ts)

\* ------------------------------------------------------------- the mount
\* the load effect of the first render
LoadEffect ==
    /\ phase = "load"
    /\ phase' = "save"
    /\ queued' = IF store.kind # "absent" /\ ~JsonParse(store).threw
                 THEN [set |-> TRUE, value |-> JsonParse(store).value]
                 ELSE queued
    /\ UNCHANGED <<storeFull, trades, loading, analysisResult, analysedCsv, store,
                   alertMsg, reads, imports, analyses>>

\* the save effect of the first render, whose trades is the initial []
SaveEffectOnMount ==
    /\ phase = "save"
    /\ phase' = "commit"
    /\ SaveEffect(trades)
    /\ UNCHANGED <<storeFull, queued, trades, loading, analysisResult, analysedCsv,
                   alertMsg, reads, imports, analyses>>

\* the render of the queued setTrades and its save effect; the render of a
\* value that is no array throws (trades.length, [...trades]) with no error
\* boundary above it: the application is unmounted and no effect runs
CommitLoaded ==
    /\ phase = "commit"
    /\ queued' = NotQueued
    /\ IF ~queued.set
       THEN phase' = "ready" /\ UNCHANGED <<trades, store>>
       ELSE IF IsArray(queued.value)
            THEN phase' = "ready" /\ trades' = queued.value.items /\ SaveEffect(trades')
            ELSE phase' = "crashed" /\ trades' = queued.value /\ UNCHANGED store
    /\ UNCHANGED <<storeFull, loading, analysisResult, analysedCsv, alertMsg, reads,
                   imports, analyses>>

\* The millisecond clock never runs backwards and only the equality of two
\* readings matters to an id: a reading is the last reading of this session
\* (the clock has not advanced since) or the next value (it has). The trades of
\* the previous session carry earlier, negative readings.
Readings(ts) == {ts[i].id.ms : i \in 1..Len(ts)} \cap Nat

\* the trades this session has added
Added(ts) == Cardinality({i \in 1..Len(ts) : ts[i].id.ms \in Nat})

Latest(ms) == CHOOSE m \in ms : \A n \in ms : n <= m

DateNow(ts) ==
    IF Readings(ts) = {} THEN {0}
    ELSE {Latest(Readings(ts)), Latest(Readings(ts)) + 1}

\* ---------------------------------------------------------- the trade form
\* an addTrade that puts the new trade first
addTradePrepends(trade) ==
    \E ms \in DateNow(trades) :
        /\ trades' = <<WithId(trade, FormId(ms))>> \o trades
        /\ SaveEffect(trades')

addTrade(trade) ==
    \E ms \in DateNow(trades) :
        /\ trades' = Append(trades, WithId(trade, FormId(ms)))
        /\ SaveEffect(trades')

handleSubmit(form) ==
    /\ phase = "ready"
    /\ IF form.pair = "" \/ form.pnl = <<>>
       THEN /\ alertMsg' = AlertFormIncomplete
            /\ UNCHANGED <<trades, store>>
       ELSE /\ Added(trades) < MaxAdded
            /\ addTrade(FormTrade(form))
            /\ alertMsg' = AlertNone
    /\ UNCHANGED <<storeFull, phase, queued, loading, analysisResult, analysedCsv,
                   reads, imports, analyses>>

\* ------------------------------------------------------------- the import
\* runAiImport without its check of an empty excelJson
runAiImportKeepsEmpty(excelJson) ==
    /\ loading' = TRUE
    /\ imports' = imports (+) One([dataSample |-> DataSample(excelJson)])
    /\ alertMsg' = AlertNone
    /\ UNCHANGED <<trades, store, analysisResult, analysedCsv>>

\* runAiImport up to the await of generateContent
runAiImport(excelJson) ==
    IF Len(excelJson) = 0
    THEN /\ alertMsg' = AlertEmptyFile
         /\ UNCHANGED <<trades, store, analysisResult, analysedCsv, loading, imports>>
    ELSE /\ loading' = TRUE
         /\ imports' = imports (+) One([dataSample |-> DataSample(excelJson)])
         /\ alertMsg' = AlertNone
         /\ UNCHANGED <<trades, store, analysisResult, analysedCsv>>

handleFileUpload(file) ==
    /\ phase = "ready"
    /\ IF file = NoFile
       THEN UNCHANGED <<loading, reads>>
       ELSE /\ InFlight < MaxInFlight
            /\ loading' = TRUE
            /\ reads' = reads + 1
    /\ alertMsg' = AlertNone
    /\ UNCHANGED <<storeFull, phase, queued, trades, analysisResult, analysedCsv, store,
                   imports, analyses>>

readerOnError(file) ==
    /\ reads > 0
    /\ file.kind = "unreadable"
    /\ reads' = reads - 1
    /\ loading' = FALSE
    /\ alertMsg' = AlertReadError
    /\ UNCHANGED <<storeFull, phase, queued, trades, analysisResult, analysedCsv, store,
                   imports, analyses>>

\* XLSX.utils.sheet_to_json of the first sheet
SheetToJson(file) == file.rows

readerOnLoad(file) ==
    /\ reads > 0
    /\ file.kind \in {"corrupt", "workbook"}
    /\ reads' = reads - 1
    /\ IF file.kind = "corrupt"
       THEN /\ loading' = FALSE
            /\ alertMsg' = AlertWorkbookError
            /\ UNCHANGED <<trades, store, analysisResult, analysedCsv, imports>>
       ELSE runAiImport(SheetToJson(file))
    /\ UNCHANGED <<storeFull, phase, queued, analyses>>

\* newTradesWithIds
NewTradesWithIds(importedTrades, ms) ==
    [i \in 1..Len(importedTrades) |-> WithId(importedTrades[i], ImportId(ms, i - 1))]

\* a runAiImport whose catch also clears the published analysis
importResponseClearsResult(run, resp) ==
    /\ BagIn(run, imports)
    /\ imports' = imports (-) One(run)
    /\ loading' = FALSE
    /\ IF resp.kind = "throw" \/ JsonParse(resp.text).threw
       THEN /\ alertMsg' = AlertImportError
            /\ analysisResult' = Null
            /\ UNCHANGED <<trades, store>>
       ELSE /\ UNCHANGED analysisResult
            /\ LET importedTrades == JsonParse(resp.text).value
               IN  IF IsArray(importedTrades) /\ Len(importedTrades.items) > 0
                   THEN /\ Added(trades) + Len(importedTrades.items) <= MaxAdded
                        /\ \E ms \in DateNow(trades) :
                              /\ trades' = trades \o NewTradesWithIds(importedTrades.items, ms)
                              /\ SaveEffect(trades')
                        /\ alertMsg' = AlertImported
                   ELSE /\ alertMsg' = AlertNoTrades
                        /\ UNCHANGED <<trades, store>>
    /\ UNCHANGED <<storeFull, phase, queued, analysedCsv, reads, analyses>>

\* runAiImport from the return of generateContent to its end
importResponse(run, resp) ==
    /\ BagIn(run, imports)
    /\ imports' = imports (-) One(run)
    /\ loading' = FALSE
    /\ IF resp.kind = "throw" \/ JsonParse(resp.text).threw
       THEN /\ alertMsg' = AlertImportError
            /\ UNCHANGED <<trades, store>>
       ELSE LET importedTrades == JsonParse(resp.text).value
            IN  IF IsArray(importedTrades) /\ Len(importedTrades.items) > 0
                THEN /\ Added(trades) + Len(importedTrades.items) <= MaxAdded
                     /\ \E ms \in DateNow(trades) :
                           /\ trades' = trades \o NewTradesWithIds(importedTrades.items, ms)
                           /\ SaveEffect(trades')
                     /\ alertMsg' = AlertImported
                ELSE /\ alertMsg' = AlertNoTrades
                     /\ UNCHANGED <<trades, store>>
    /\ UNCHANGED <<storeFull, phase, queued, analysisResult, analysedCsv, reads, analyses>>

\* ----------------------------------------------------------- the analysis
\* runAiAnalysis without its check of the number of trades
runAiAnalysisAnyCount ==
    /\ IF PromptThrows(trades)
       THEN /\ loading' = FALSE
            /\ analysisResult' = Null
            /\ analysedCsv' = <<>>
            /\ alertMsg' = AlertAnalysisError
            /\ UNCHANGED analyses
       ELSE /\ InFlight < MaxInFlight
            /\ loading' = TRUE
            /\ analysisResult' = Null
            /\ analysedCsv' = <<>>
            /\ analyses' = analyses (+) One([csv |-> TradesAsText(trades)])
            /\ alertMsg' = AlertNone
    /\ UNCHANGED <<storeFull, phase, queued, trades, store, reads, imports>>

\* runAiAnalysis up to the await of generateContent
runAiAnalysis ==
    /\ IF Len(trades) < MinTrades
       THEN /\ alertMsg' = AlertMinTrades
            /\ UNCHANGED <<loading, analysisResult, analysedCsv, analyses>>
       ELSE IF PromptThrows(trades)
       THEN /\ loading' = FALSE
            /\ analysisResult' = Null
            /\ analysedCsv' = <<>>
            /\ alertMsg' = AlertAnalysisError
            /\ UNCHANGED analyses
       ELSE /\ InFlight < MaxInFlight
            /\ loading' = TRUE
            /\ analysisResult' = Null
            /\ analysedCsv' = <<>>
            /\ analyses' = analyses (+) One([csv |-> TradesAsText(trades)])
            /\ alertMsg' = AlertNone
    /\ UNCHANGED <<storeFull, phase, queued, trades, store, reads, imports>>

\* the Run AI Analysis button: disabled={loading || trades.length < 3}
AnalysisButtonDisabled == loading \/ Len(trades) < MinTrades

clickRunAiAnalysis ==
    /\ phase = "ready"
    /\ ~AnalysisButtonDisabled
    /\ runAiAnalysis

\* runAiAnalysis called whatever the state of the button
callRunAiAnalysis ==
    /\ phase = "ready"
    /\ runAiAnalysis

\* runAiAnalysis from the return of generateContent to its end
analysisResponse(run, resp) ==
    /\ BagIn(run, analyses)
    /\ analyses' = analyses (-) One(run)
    /\ loading' = FALSE
    /\ IF resp.kind = "throw" \/ JsonParse(resp.text).threw
       THEN /\ alertMsg' = AlertAnalysisError
            /\ UNCHANGED <<analysisResult, analysedCsv>>
       ELSE /\ analysisResult' = JsonParse(resp.text).value
            /\ analysedCsv' = run.csv
            /\ alertMsg' = AlertNone
    /\ UNCHANGED <<storeFull, phase, queued, trades, store, reads, imports>>

\* ------------------------------------------------------- specifications
Submit == \E form \in FormInputs : handleSubmit(form)
Upload == \E file \in Files : handleFileUpload(file)
\* what a file holds shows only when its read ends
ReadFails == \E file \in Files : readerOnError(file)
ReadDone == \E file \in Files : readerOnLoad(file)
ReadDoneSheets == \E file \in Sheets : readerOnLoad(file)
ImportEnds == \E run \in BagToSet(imports) : \E resp \in ImportResponses : importResponse(run, resp)
AnalysisEnds ==
    \E run \in BagToSet(analyses) : \E resp \in AnalysisResponses(run.csv) : analysisResponse(run, resp)

Handlers ==
    \/ LoadEffect
    \/ SaveEffectOnMount
    \/ CommitLoaded
    \/ Submit
    \/ Upload
    \/ ReadFails
    \/ ReadDone
    \/ ImportEnds
    \/ AnalysisEnds

\* the application as its controls let it be driven
Next == Handlers \/ clickRunAiAnalysis

Spec == Init /\ [][Next]_vars

\* the handlers called directly, runAiAnalysis also while its button is disabled
NextCalls == Handlers \/ callRunAiAnalysis

SpecCalls == Init /\ [][NextCalls]_vars

\* the journals of three kinds of trade typed into the form, long enough to analyse
JournalForms == {FormWin, FormLoss, FormEven}

Journals ==
    UNION {{[i \in 1..n |-> WithId(FormTrade(f[i]), FormId(i))] : f \in [1..n -> JournalForms]}
              : n \in MinTrades..MaxJournal}

\* a mounted application holding a journal, saved, with nothing in flight
InitMetrics ==
    /\ phase = "ready"
    /\ queued = NotQueued
    /\ trades \in Journals
    /\ loading = FALSE
    /\ analysisResult = Null
    /\ analysedCsv = <<>>
    /\ store = Stringify(trades)
    /\ storeFull = FALSE
    /\ alertMsg = AlertNone
    /\ reads = 0
    /\ imports = EmptyBag
    /\ analyses = EmptyBag

\* the analysis of the journal, run after run
NextMetrics == clickRunAiAnalysis \/ AnalysisEnds

SpecMetrics == InitMetrics /\ [][NextMetrics]_vars

\* a session over any stored item, over sheets of any length and over a storage
\* that may refuse the writes
InitSession ==
    /\ phase = "load"
    /\ queued = NotQueued
    /\ trades = <<>>
    /\ loading = FALSE
    /\ analysisResult = Null
    /\ analysedCsv = <<>>
    /\ store \in StoredItems
    /\ storeFull \in BOOLEAN
    /\ alertMsg = AlertNone
    /\ reads = 0
    /\ imports = EmptyBag
    /\ analyses = EmptyBag

\* the steps that reach the collection or the store: the mount, the form, the import
NextSession ==
    \/ LoadEffect
    \/ SaveEffectOnMount
    \/ CommitLoaded
    \/ Submit
    \/ Upload
    \/ ReadFails
    \/ ReadDoneSheets
    \/ ImportEnds

SpecSession == InitSession /\ [][NextSession]_vars

\* ------------------------------------------------------------ properties
RunsInFlight == BagCardinality(imports) + BagCardinality(analyses)

Idle == phase = "ready" /\ reads = 0 /\ RunsInFlight = 0

Failed(resp) == resp.kind = "throw" \/ JsonParse(resp.text).threw

EnumFields ==
    [position |-> Positions, status |-> Statuses, session |-> Sessions,
     bias |-> Biases, newsImpact |-> NewsImpacts, grade |-> Grades]

\* the canonical schema of a trade, as far as pnl, commission and the enums go
Conforms(t) ==
    /\ {"pnl", "commission"} \subseteq DOMAIN t
    /\ IsFinite(t.pnl)
    /\ IsFinite(t.commission)
    /\ \A f \in DOMAIN EnumFields : f \in DOMAIN t /\ t[f] \in EnumFields[f]

AnalysisShape == {"metrics", "cumulativePnlData", "outcomeDistributionData",
                  "sessionPnlData", "gradePnlData"}

\* C1: a call of runAiAnalysis with fewer than 3 trades changes neither trades,
\* analysisResult, loading nor the store, and issues no inference request.
C1_TooFewTradesRejected ==
    [][(Len(trades) < MinTrades /\ callRunAiAnalysis)
        => UNCHANGED <<trades, analysisResult, loading, store, imports, analyses>>]_vars

C1_Witness ==
    /\ alertMsg = AlertMinTrades
    /\ Len(trades) \in 1..(MinTrades - 1)

\* C2: an import run on an empty sequence of rows leaves the trade collection
\* unchanged and issues no inference request, whatever the collection holds.
C2_EmptyImportRejected ==
    [][\A file \in Files :
          (readerOnLoad(file) /\ file.kind = "workbook" /\ Len(SheetToJson(file)) = 0)
              => UNCHANGED <<trades, store, imports, analyses>>]_vars

C2_Witness ==
    /\ alertMsg = AlertEmptyFile
    /\ Len(trades) > 0

\* C3: a non-null analysisResult was computed from exactly the current trade
\* collection (adding or importing trades clears or recomputes it).
C3_ResultIsCurrent ==
    analysisResult # Null => analysedCsv = TradesAsText(trades)

\* C4: when an analysis run that passed the minimum-trade check fails,
\* analysisResult is null at the end of the run.
C4_FailedRunLeavesNoResult ==
    [][\A run \in BagToSet(analyses) : \A resp \in AnalysisResponses(run.csv) :
          (analysisResponse(run, resp) /\ Failed(resp)) => analysisResult' = Null]_vars

\* C5: while an import or analysis run is in flight, loading is true.
C5_BusyWhileInFlight == RunsInFlight > 0 => loading

\* C6: at most one analysis run is in flight, and the trade collection is the
\* one the run in flight started from.
C6_OneAnalysisOnFixedTrades ==
    /\ BagCardinality(analyses) <= 1
    /\ \A run \in BagToSet(analyses) : run.csv = TradesAsText(trades)

\* C7: once no file read, import or analysis run is in flight, loading is false
\* and, given at least 3 trades, the analysis button is enabled.
C7_UsableWhenIdle ==
    Idle => /\ ~loading
            /\ Len(trades) >= MinTrades => ~AnalysisButtonDisabled

\* C8: no two trades of the collection have the same id.
C8_UniqueIds ==
    \A i, j \in 1..Len(trades) : i # j => trades[i].id # trades[j].id

\* C9: a response that does not match the expected shape is never accepted: a
\* non-null analysisResult has metrics and the four series, and no imported
\* trade departs from the trade schema.
C9_MalformedResponseRejected ==
    /\ analysisResult # Null => AnalysisShape \subseteq DOMAIN analysisResult
    /\ \A i \in 1..Len(trades) :
          trades[i].id.prefix = "ai-import-" => Conforms(trades[i])

\* C10: every trade of the collection conforms to the canonical schema.
C10_TradesConform == \A i \in 1..Len(trades) : Conforms(trades[i])

\* C11: an import appends no more trades than the rows handed to the
\* inference, which are the first min(n, 100) rows of the sheet.
C11_AtMostOneTradePerRow ==
    [][/\ \A run \in BagToSet(imports') : Len(run.dataSample) <= SampleLimit
       /\ \A file \in Sheets :
             readerOnLoad(file) /\ file.kind = "workbook" /\ Len(SheetToJson(file)) > 0
                 => BagIn([dataSample |-> SubSeq(SheetToJson(file), 1,
                               Min(Len(SheetToJson(file)), SampleLimit))], imports')
       /\ \A run \in BagToSet(imports) : \A resp \in ImportResponses :
             importResponse(run, resp)
                 => Len(trades') - Len(trades) <= Len(run.dataSample)]_vars

\* C12: once mounted, a storage that takes the writes holds the serialization
\* of the current collection after every addTrade and every import that appends;
\* a storage that refuses the write keeps its item, and the collection still
\* takes the new trades and the application stays mounted.
C12_PersistenceFollowsMutation ==
    /\ [](phase = "ready" /\ ~storeFull => store = Stringify(trades))
    /\ [][phase = "ready" /\ trades' # trades
            => /\ phase' = "ready"
               /\ Len(trades') > Len(trades)
               /\ SubSeq(trades', 1, Len(trades)) = trades
               /\ store' = IF storeFull THEN store ELSE Stringify(trades')]_vars

C12_Witness ==
    /\ phase = "ready"
    /\ ~storeFull
    /\ store = Stringify(trades)
    /\ \E i, j \in 1..Len(trades) :
          /\ trades[i].id.ms \in Nat /\ trades[i].id.prefix = ""
          /\ trades[j].id.prefix = "ai-import-"

\* C13: at the mount a stored item that is absent or is no serialized sequence
\* of trades leaves the collection empty and the application mounted; any
\* other item is parsed into the collection.
IsSerializedTrades(item) == item.kind = "json" /\ IsArray(item.value)

C13_LoadFallsBack ==
    /\ [](phase # "crashed")
    /\ [](phase = "save"
            => queued = IF IsSerializedTrades(store)
                        THEN [set |-> TRUE, value |-> store.value]
                        ELSE NotQueued)
    /\ [][phase = "commit"
            => /\ phase' = "ready"
               /\ trades' = IF queued.set THEN queued.value.items ELSE <<>>]_vars

\* the amount of a text in the format "Rp [amount]"
Amount(text) == text[2]

HasMetrics == analysisResult # Null /\ "metrics" \in DOMAIN analysisResult

C15_SeriesFollowsTrades ==
    analysisResult # Null =>
        /\ {"metrics", "cumulativePnlData"} \subseteq DOMAIN analysisResult
        /\ LET series == analysisResult.cumulativePnlData
           IN  /\ Len(series.labels) = Len(analysedCsv)
               /\ Len(series.data) = Len(series.labels)
               /\ \A i \in 1..Len(analysedCsv) : series.labels[i] = analysedCsv[i].date
               /\ series.data[Len(series.data)] = Amount(analysisResult.metrics.totalNetPnl)

\* the responses after which runAiImport appends nothing
YieldsNoTrades(resp) ==
    \/ Failed(resp)
    \/ ~IsArray(JsonParse(resp.text).value)
    \/ Len(JsonParse(resp.text).value.items) = 0

\* C16: an import whose call throws, whose response does not parse or that
\* yields no trade leaves trades and analysisResult as they were and issues no
\* further request; any other import appends every trade of its response.
C16_FailedImportChangesNothing ==
    [][\A run \in BagToSet(imports) : \A resp \in ImportResponses :
          BagCardinality(imports') < BagCardinality(imports) /\ importResponse(run, resp)
              => IF YieldsNoTrades(resp)
                 THEN /\ UNCHANGED <<trades, analysisResult, analysedCsv, store>>
                      /\ imports' = imports (-) One(run)
                      /\ UNCHANGED <<reads, analyses>>
                 ELSE Len(trades') = Len(trades) + Len(JsonParse(resp.text).value.items)]_vars

C16_Witness ==
    /\ alertMsg \in {AlertImportError, AlertNoTrades}
    /\ RunsInFlight = 0
    /\ analysisResult # Null
    /\ Len(trades) >= MinTrades

IsPrefix(before, after) ==
    Len(before) <= Len(after) /\ SubSeq(after, 1, Len(before)) = before

WithoutId(t) == [f \in DOMAIN t \ {"id"} |-> t[f]]

\* C17: whichever of addTrade, an import or an analysis takes the step, the
\* collection before it is a prefix of the collection after it, and the trades
\* of an import follow it as one block in the order of the response.
C17_AppendOnly ==
    [][phase = "ready"
        => /\ IsPrefix(trades, trades')
           /\ \A run \in BagToSet(imports) : \A resp \in ImportResponses :
                 (/\ BagCardinality(imports') < BagCardinality(imports)
                  /\ ~YieldsNoTrades(resp)
                  /\ importResponse(run, resp))
                     => LET items == JsonParse(resp.text).value.items
                        IN  /\ Len(trades') = Len(trades) + Len(items)
                            /\ \A i \in 1..Len(items) :
                                  /\ WithoutId(trades'[Len(trades) + i]) = WithoutId(items[i])
                                  /\ trades'[Len(trades) + i].id.index = i - 1]_vars

\* the stored trades, then a trade of the form, then a trade of an import
C17_Witness ==
    /\ Len(trades) = Len(StoredTrades) + 2
    /\ SubSeq(trades, 1, Len(StoredTrades)) = JsonParse(Stringify(StoredTrades)).value.items
    /\ trades[Len(trades) - 1].id.prefix = ""
    /\ trades[Len(trades)].id.prefix = "ai-import-"

\* C18: from the mount to the first step of the user no step takes a trade
\* out of the item stored under 'tradingJournalTrades'.
C18_StoredTradesSurviveMount ==
    [][phase # "ready" /\ IsSerializedTrades(store)
        => /\ IsSerializedTrades(store')
           /\ \A i \in 1..Len(store.value.items) :
                 \E j \in 1..Len(store'.value.items) :
                     store'.value.items[j] = store.value.items[i]]_vars

====
